---- MODULE Spec2Model ----
(***************************************************************************)
(* Lazy-propagation segment tree of src/segment_tree.cpp.                  *)
(*                                                                         *)
(* The two arrays _tree and _tags are functions over 0 .. _space_needed-1. *)
(* Every recursive procedure of the class is a RECURSIVE operator over a   *)
(* record                                                                  *)
(*    [tree, tags, ret, depth, ub, touched, visits]                        *)
(* holding the two arrays, the value returned by the call, the deepest     *)
(* nesting level of the recursion so far, and whether an access outside    *)
(* the arrays has happened (undefined behaviour: the arrays then stand for *)
(* any contents); touched is the set of array indices the call has read or *)
(* written, visits the nodes the traversal has arrived at, each with what  *)
(* it found there.  The variable ref is the reference array of point       *)
(* values against which the tree is compared.  All explored values are     *)
(* far inside the range of int, where signed overflow (undefined in C++)   *)
(* cannot occur.                                                           *)
(***************************************************************************)
EXTENDS Integers, FiniteSets, Sequences, TLC

\* ---------------------------------------------------------------- bounds
\* Largest number of points of a tree built by the library specification.
MaxN == 3
\* Update deltas are drawn from -MaxVal .. MaxVal, initial values from
\* 0 .. MaxVal, and an update is issued only while every point value stays
\* in 0 .. MaxVal.
MaxVal == 1
\* Largest number of points of a tree whose shape alone is examined.
MaxShape == 64

\* main(): SegmentTree segtree(1, 50);
MainLeft == 1
MainRight == 50
\* main(): for (int i=1; i<=50; i++)
LoopLast == 50

VARIABLES
    pc,            \* position of the caller: "new" before the constructor has
                   \* run; "ready" on a tree made by SegmentTree(int, int);
                   \* "built" on a tree made by SegmentTree(vec) and not yet
                   \* updated, "updated" after its update; "misused" after a
                   \* call that broke the range precondition
    _left_bound,   \* int _left_bound
    _right_bound,  \* int _right_bound
    _tree,         \* vector<int> _tree
    _tags,         \* vector<int> _tags
    ref,           \* reference model: the plain array of point values
    op,            \* the last public call: its kind, arguments, result, depth,
                   \* the array indices it read or wrote, and whether it
                   \* changed an entry of _tree or _tags
    ub,            \* an access outside the arrays has happened
    before,        \* results of all valid queries just before the last call
    pair,          \* the last two calls were add(x,i,i); add(-x,i,i)
    base,          \* results of all valid queries just before that pair
    step,          \* main(): number of statements executed so far
    initial        \* the point values the constructor started from

vars == <<pc, _left_bound, _right_bound, _tree, _tags, ref, op, ub,
         before, pair, base, step, initial>>

Max(a, b) == IF a >= b THEN a ELSE b

\* C++ integer division by two truncates toward zero.
TruncDiv2(n) == IF n >= 0 THEN n \div 2 ELSE -((-n) \div 2)

\* Mutant of Mid: the halving is forgotten.
MidNoHalving(left_bound, right_bound) == left_bound + (right_bound - left_bound)

\* int mid = left_bound + (right_bound - left_bound) / 2;
Mid(left_bound, right_bound) == left_bound + TruncDiv2(right_bound - left_bound)

\* Mutant of _space_needed: the factor 4 is forgotten.
_space_neededNoFactor(left_bound, right_bound) == right_bound - left_bound + 1

\* return 4 * (_right_bound - _left_bound + 1);
_space_needed(left_bound, right_bound) == 4 * (right_bound - left_bound + 1)

\* vector<int>(_space_needed(), 0)
ZeroVector(n) == [i \in 0 .. n - 1 |-> 0]

\* An index inside the allocated arrays.
InBounds(s, idx) == idx \in DOMAIN s.tree

NewState(left_bound, right_bound) ==
    [tree  |-> ZeroVector(_space_needed(left_bound, right_bound)),
     tags  |-> ZeroVector(_space_needed(left_bound, right_bound)),
     ret   |-> 0,
     depth |-> 0,
     ub    |-> FALSE,
     touched |-> {},
     visits  |-> {}]

Undefined(s) == [s EXCEPT !.ub = TRUE]

\* The call reads or writes _tree[i] or _tags[i] for the indices i of S.
Touch(s, S) == [s EXCEPT !.touched = @ \cup S]

\* ------------------------------------------------------------ _build
\* Mutant of BuildNode: the right child is left out of the sum.
BuildNodeLeftOnly(s, idx) ==
    IF s.ub \/ ~InBounds(s, idx * 2 + 1) THEN Undefined(s)
    ELSE [s EXCEPT !.tree[idx] = s.tree[idx * 2]]

\* _tree[idx] = _tree[idx*2] + _tree[idx*2+1];   (in _build)
BuildNode(s, idx) ==
    IF s.ub \/ ~InBounds(s, idx * 2 + 1) THEN Undefined(s)
    ELSE Touch([s EXCEPT !.tree[idx] = s.tree[idx * 2] + s.tree[idx * 2 + 1]],
               {idx, idx * 2, idx * 2 + 1})

RECURSIVE _build(_, _, _, _, _, _)
_build(s, idx, left, right, vec, d) ==
    IF s.ub \/ ~InBounds(s, idx) \/ left \notin DOMAIN vec THEN Undefined(s)
    ELSE IF left = right
    THEN Touch([s EXCEPT !.tree[idx] = vec[left], !.depth = Max(@, d)], {idx})
    ELSE LET mid == Mid(left, right)
             s0  == [s EXCEPT !.depth = Max(@, d)]
             s1  == _build(s0, idx * 2, left, mid, vec, d + 1)
             s2  == _build(s1, idx * 2 + 1, mid + 1, right, vec, d + 1)
         IN  BuildNode(s2, idx)

\* ------------------------------------------------------- push-down
\* Mutant of PushDown: the children's aggregates are not brought up to date.
PushDownTagsOnly(s, idx, left_bound, right_bound) ==
    LET t == s.tags[idx]
    IN  IF t # 0 /\ left_bound # right_bound
        THEN IF ~InBounds(s, idx * 2 + 1) THEN Undefined(s)
             ELSE [s EXCEPT
                     !.tags = [@ EXCEPT ![idx * 2] = @ + t,
                                        ![idx * 2 + 1] = @ + t,
                                        ![idx] = 0]]
        ELSE s

\* Mutant of PushDown: both children are credited with the left child's size.
PushDownSameSize(s, idx, left_bound, right_bound) ==
    LET mid == left_bound + TruncDiv2(right_bound - left_bound)
        t   == s.tags[idx]
    IN  IF t # 0 /\ left_bound # right_bound
        THEN IF ~InBounds(s, idx * 2 + 1) THEN Undefined(s)
             ELSE [s EXCEPT
                     !.tags = [@ EXCEPT ![idx * 2] = @ + t,
                                        ![idx * 2 + 1] = @ + t,
                                        ![idx] = 0],
                     !.tree = [@ EXCEPT ![idx * 2] = @ + t * (mid - left_bound + 1),
                                        ![idx * 2 + 1] = @ + t * (mid - left_bound + 1)]]
        ELSE s

\* Mutant of PushDown: the tag of the node is not cleared.
PushDownKeepTag(s, idx, left_bound, right_bound) ==
    LET mid == Mid(left_bound, right_bound)
        t   == s.tags[idx]
    IN  IF t # 0 /\ left_bound # right_bound
        THEN IF ~InBounds(s, idx * 2 + 1) THEN Undefined(s)
             ELSE [s EXCEPT
                     !.tags = [@ EXCEPT ![idx * 2] = @ + t,
                                        ![idx * 2 + 1] = @ + t],
                     !.tree = [@ EXCEPT ![idx * 2] = @ + t * (mid - left_bound + 1),
                                        ![idx * 2 + 1] = @ + t * (right_bound - mid)],
                     !.touched = @ \cup {idx, idx * 2, idx * 2 + 1}]
        ELSE Touch(s, {idx})

\* if (_tags[idx] != 0 && left_bound != right_bound) { ... }
PushDown(s, idx, left_bound, right_bound) ==
    LET mid == Mid(left_bound, right_bound)
        t   == s.tags[idx]
    IN  IF t # 0 /\ left_bound # right_bound
        THEN IF ~InBounds(s, idx * 2 + 1) THEN Undefined(s)
             ELSE [s EXCEPT
                     !.tags = [@ EXCEPT ![idx * 2] = @ + t,
                                        ![idx * 2 + 1] = @ + t,
                                        ![idx] = 0],
                     !.tree = [@ EXCEPT ![idx * 2] = @ + t * (mid - left_bound + 1),
                                        ![idx * 2 + 1] = @ + t * (right_bound - mid)],
                     !.touched = @ \cup {idx, idx * 2, idx * 2 + 1}]
        ELSE Touch(s, {idx})

\* if (left <= left_bound && right_bound <= right)
Covers(left, right, left_bound, right_bound) ==
    left <= left_bound /\ right_bound <= right

\* Mutant of ApplyHere: the update is not recorded in the tag.
ApplyHereNoTag(s, value, idx, left_bound, right_bound) ==
    [s EXCEPT !.tree[idx] = @ + value * (right_bound - left_bound + 1)]

\* Mutant of ApplyHere: the tag is overwritten instead of increased.
ApplyHereOverwriteTag(s, value, idx, left_bound, right_bound) ==
    [s EXCEPT !.tree[idx] = @ + value * (right_bound - left_bound + 1),
              !.tags[idx] = value]

\* Mutant of ApplyHere: the update is also handed to the children at once.
ApplyHereAndChildren(s, value, idx, left_bound, right_bound) ==
    IF left_bound # right_bound /\ InBounds(s, idx * 2 + 1)
    THEN [s EXCEPT !.tree[idx] = @ + value * (right_bound - left_bound + 1),
                   !.tags[idx] = @ + value,
                   !.tags[idx * 2] = @ + value,
                   !.tags[idx * 2 + 1] = @ + value,
                   !.touched = @ \cup {idx, idx * 2, idx * 2 + 1}]
    ELSE [s EXCEPT !.tree[idx] = @ + value * (right_bound - left_bound + 1),
                   !.tags[idx] = @ + value,
                   !.touched = @ \cup {idx}]

\* _tree[idx] += value * (right_bound - left_bound + 1); _tags[idx] += value;
ApplyHere(s, value, idx, left_bound, right_bound) ==
    [s EXCEPT !.tree[idx] = @ + value * (right_bound - left_bound + 1),
              !.tags[idx] = @ + value,
              !.touched = @ \cup {idx}]

\* Mutant of Recompute: the aggregate is not recomputed after the recursion.
RecomputeSkipped(s, idx) == s

\* _tree[idx] = _tree[idx*2] + _tree[idx*2+1];   (in _add)
Recompute(s, idx) ==
    IF s.ub \/ ~InBounds(s, idx * 2 + 1) THEN Undefined(s)
    ELSE Touch([s EXCEPT !.tree[idx] = s.tree[idx * 2] + s.tree[idx * 2 + 1]],
               {idx, idx * 2, idx * 2 + 1})

\* The proper ancestors of node idx: idx/2, idx/4, ... down to the root 1.
RECURSIVE Ancestors(_)
Ancestors(idx) == IF idx <= 1 THEN {} ELSE {idx \div 2} \cup Ancestors(idx \div 2)

\* What the traversal finds when it arrives at node idx covering
\* [left_bound, right_bound] in the state s: covered tells which branch it
\* takes there, tree and tag are the node's entries on arrival, clear tells
\* whether every proper ancestor of the node has a zero tag at that moment.
Arrival(s, idx, left_bound, right_bound, covered) ==
    [idx |-> idx, lb |-> left_bound, rb |-> right_bound,
     covered |-> covered, tree |-> s.tree[idx], tag |-> s.tags[idx],
     clear |-> \A a \in Ancestors(idx) : s.tags[a] = 0]

\* The state s with the arrival at node idx recorded.  (The set has the one
\* element x = s: s is evaluated once rather than at each of its uses.)
Visit(s, idx, left_bound, right_bound, covered) ==
    CHOOSE r \in {[x EXCEPT !.visits =
                       @ \cup {Arrival(x, idx, left_bound, right_bound, covered)}]
                     : x \in {s}} : TRUE

\* -------------------------------------------------------------- _add
RECURSIVE _add(_, _, _, _, _, _, _, _)
_add(s, value, idx, left, right, left_bound, right_bound, d) ==
    IF s.ub \/ ~InBounds(s, idx) THEN Undefined(s)
    ELSE IF Covers(left, right, left_bound, right_bound)
    THEN [ApplyHere(Visit(s, idx, left_bound, right_bound, TRUE),
                    value, idx, left_bound, right_bound) EXCEPT !.depth = Max(@, d)]
    ELSE LET mid == Mid(left_bound, right_bound)
             s1  == [PushDown(Visit(s, idx, left_bound, right_bound, FALSE),
                              idx, left_bound, right_bound)
                        EXCEPT !.depth = Max(@, d)]
             s2  == IF left <= mid
                    THEN _add(s1, value, idx * 2, left, right, left_bound, mid, d + 1)
                    ELSE s1
             s3  == IF right >= mid + 1
                    THEN _add(s2, value, idx * 2 + 1, left, right, mid + 1, right_bound, d + 1)
                    ELSE s2
         IN  Recompute(s3, idx)

\* ---------------------------------------------------------- _get_sum
RECURSIVE _get_sum(_, _, _, _, _, _, _)
_get_sum(s, idx, left, right, left_bound, right_bound, d) ==
    IF s.ub \/ ~InBounds(s, idx) THEN Undefined(s)
    ELSE IF Covers(left, right, left_bound, right_bound)
    THEN [Visit(s, idx, left_bound, right_bound, TRUE)
             EXCEPT !.ret = s.tree[idx], !.depth = Max(@, d),
                    !.touched = @ \cup {idx}]
    ELSE LET mid == Mid(left_bound, right_bound)
             s1  == [PushDown(Visit(s, idx, left_bound, right_bound, FALSE),
                              idx, left_bound, right_bound)
                        EXCEPT !.depth = Max(@, d)]
             s2  == IF left <= mid
                    THEN _get_sum(s1, idx * 2, left, right, left_bound, mid, d + 1)
                    ELSE [s1 EXCEPT !.ret = 0]
             s3  == IF right >= mid + 1
                    THEN _get_sum(s2, idx * 2 + 1, left, right, mid + 1, right_bound, d + 1)
                    ELSE [s2 EXCEPT !.ret = 0]
         IN  [s3 EXCEPT !.ret = s2.ret + s3.ret]

\* ------------------------------------------------ the public interface
\* The current object as a record of the recursion.
Self ==
    [tree |-> _tree, tags |-> _tags, ret |-> 0, depth |-> 0, ub |-> ub,
     touched |-> {}, visits |-> {}]

\* SegmentTree(int left_bound, int right_bound)
SegmentTreeRange(left_bound, right_bound) == NewState(left_bound, right_bound)

\* SegmentTree(const vector<int>& vec): vec is a function over 0 .. size-1.
SegmentTreeVec(vec) ==
    LET n == Cardinality(DOMAIN vec)
    IN  _build(NewState(0, n - 1), 1, 0, n - 1, vec, 1)

\* int get_sum(int left, int right), on the object s over [lb, rb]
get_sum(s, left, right, lb, rb) == _get_sum(s, 1, left, right, lb, rb, 1)

\* void add(int value, int left, int right), on the object s over [lb, rb]
add(s, value, left, right, lb, rb) == _add(s, value, 1, left, right, lb, rb, 1)

\* ------------------------------------------------------ reference model
Points == _left_bound .. _right_bound

\* The precondition left_bound <= left <= right <= right_bound.
ValidRange(left, right) ==
    /\ left \in Points
    /\ right \in Points
    /\ left <= right

Ranges == {q \in Points \X Points : q[1] <= q[2]}

RECURSIVE SumOver(_, _, _)
SumOver(f, lo, hi) == IF lo > hi THEN 0 ELSE f[lo] + SumOver(f, lo + 1, hi)

\* add(x, lo, hi) on the plain array: x is added to every entry in [lo, hi].
RefAdd(f, value, left, right) ==
    [p \in DOMAIN f |-> IF left <= p /\ p <= right THEN f[p] + value ELSE f[p]]

\* What get_sum(l, r) would return if it were called on the object s.
Query(s, l, r) == get_sum(s, l, r, _left_bound, _right_bound).ret

\* The results of all valid queries on the object s.
QueryTable(s) == [q \in Ranges |-> Query(s, q[1], q[2])]

NoOp ==
    [kind |-> "none", value |-> 0, left |-> 0, right |-> 0, ret |-> 0,
     depth |-> 0, touched |-> {}, changed |-> FALSE]

NoTable == <<>>

\* ------------------------------------------------------------- actions
\* The result of a call is bound by \E over the set that holds it alone:
\* the call is evaluated once, however often its result is used.
Init ==
    /\ pc = "new"
    /\ _left_bound = 0
    /\ _right_bound = 0
    /\ _tree = <<>>
    /\ _tags = <<>>
    /\ ref = <<>>
    /\ op = NoOp
    /\ ub = FALSE
    /\ before = NoTable
    /\ pair = FALSE
    /\ base = NoTable
    /\ step = 0
    /\ initial = <<>>

Install(s) ==
    /\ _tree' = s.tree
    /\ _tags' = s.tags
    /\ ub' = s.ub

\* SegmentTree segtree(left_bound, right_bound);
ConstructRange(left_bound, right_bound) ==
    /\ pc = "new"
    /\ left_bound <= right_bound
    /\ pc' = "ready"
    /\ _left_bound' = left_bound
    /\ _right_bound' = right_bound
    /\ Install(SegmentTreeRange(left_bound, right_bound))
    /\ ref' = [p \in left_bound .. right_bound |-> 0]
    /\ initial' = [p \in left_bound .. right_bound |-> 0]
    /\ op' = [NoOp EXCEPT !.kind = "construct", !.left = left_bound,
                          !.right = right_bound]
    /\ before' = NoTable
    /\ pair' = FALSE
    /\ base' = NoTable

\* SegmentTree segtree(vec);
ConstructVec(vec) ==
    /\ pc = "new"
    /\ \E n \in {Cardinality(DOMAIN vec)}, s \in {SegmentTreeVec(vec)} :
           /\ n >= 1
           /\ pc' = "built"
           /\ _left_bound' = 0
           /\ _right_bound' = n - 1
           /\ Install(s)
           /\ ref' = vec
           /\ initial' = vec
           /\ op' = [NoOp EXCEPT !.kind = "build", !.left = 0, !.right = n - 1,
                                 !.depth = s.depth, !.touched = s.touched]
           /\ before' = NoTable
           /\ pair' = FALSE
           /\ base' = NoTable

\* The pending call add(value, left, right) undoes the point update before it.
Cancels(value, left, right) ==
    /\ op.kind = "add"
    /\ op.left = op.right
    /\ left = right
    /\ left = op.left
    /\ value = -op.value
    /\ ~pair

\* segtree.add(value, left, right); now is the table of query results of the
\* state the call starts in.
Add(value, left, right, now) ==
    \E s \in {add(Self, value, left, right, _left_bound, _right_bound)} :
        /\ Install(s)
        /\ ref' = RefAdd(ref, value, left, right)
        /\ op' = [NoOp EXCEPT !.kind = "add", !.value = value, !.left = left,
                              !.right = right, !.depth = s.depth,
                              !.touched = s.touched,
                              !.changed = (s.tree # _tree \/ s.tags # _tags)]
        /\ before' = now
        /\ pair' = Cancels(value, left, right)
        /\ base' = IF Cancels(value, left, right) THEN before ELSE NoTable
        /\ UNCHANGED <<_left_bound, _right_bound, initial>>

\* segtree.get_sum(left, right); now is the table of query results of the
\* state the call starts in.
GetSum(left, right, now) ==
    \E s \in {get_sum(Self, left, right, _left_bound, _right_bound)} :
        /\ Install(s)
        /\ op' = [NoOp EXCEPT !.kind = "get_sum", !.left = left, !.right = right,
                              !.ret = s.ret, !.depth = s.depth,
                              !.touched = s.touched,
                              !.changed = (s.tree # _tree \/ s.tags # _tags)]
        /\ before' = now
        /\ pair' = FALSE
        /\ base' = NoTable
        /\ UNCHANGED <<_left_bound, _right_bound, ref, initial>>

\* ------------------------------------------------ library specification
\* Any caller that keeps the precondition of add and get_sum.  A tree made
\* by SegmentTree(int, int) takes any number of calls; a tree made by
\* SegmentTree(vec) takes one update and any number of queries.
Vals == (-MaxVal) .. MaxVal

Vectors == UNION {[0 .. n - 1 -> 0 .. MaxVal] : n \in 1 .. MaxN}

\* The update keeps every point value within the explored window.
Capped(value, left, right) ==
    \A p \in left .. right : ref[p] + value \in 0 .. MaxVal

NewRange ==
    \E n \in 1 .. MaxN :
        /\ ConstructRange(MainLeft, MainLeft + n - 1)
        /\ UNCHANGED step

NewVec ==
    \E vec \in Vectors :
        /\ ConstructVec(vec)
        /\ UNCHANGED step

CallAdd ==
    /\ pc \in {"ready", "built"}
    /\ \E now \in {QueryTable(Self)} :
           \E value \in Vals, left \in Points, right \in Points :
               /\ ValidRange(left, right)
               /\ Capped(value, left, right)
               /\ Add(value, left, right, now)
    /\ pc' = IF pc = "built" THEN "updated" ELSE pc
    /\ UNCHANGED step

CallGetSum ==
    /\ pc \in {"ready", "built", "updated"}
    /\ \E now \in {QueryTable(Self)} :
           \E left \in Points, right \in Points :
               /\ ValidRange(left, right)
               /\ GetSum(left, right, now)
    /\ UNCHANGED <<pc, step>>

Next == NewRange \/ NewVec \/ CallAdd \/ CallGetSum

Spec == Init /\ [][Next]_vars

\* --------------------------------------------- callers that break the
\* precondition: the class checks nothing, so the recursion runs on the
\* arguments as given.  ref is left alone: a rejected call has no effect.
Around == (_left_bound - 1) .. (_right_bound + 1)

MisuseAdd ==
    /\ pc \in {"ready", "built", "updated"}
    /\ \E now \in {QueryTable(Self)} :
           \E value \in Vals, left \in Around, right \in Around :
               /\ ~ValidRange(left, right)
               /\ Install(add(Self, value, left, right, _left_bound, _right_bound))
               /\ op' = [NoOp EXCEPT !.kind = "add", !.value = value,
                                     !.left = left, !.right = right]
               /\ before' = now
    /\ pc' = "misused"
    /\ pair' = FALSE
    /\ base' = NoTable
    /\ UNCHANGED <<_left_bound, _right_bound, ref, step, initial>>

MisuseGetSum ==
    /\ pc \in {"ready", "built", "updated"}
    /\ \E now \in {QueryTable(Self)} :
           \E left \in Around, right \in Around :
               \E s \in {get_sum(Self, left, right, _left_bound, _right_bound)} :
                   /\ ~ValidRange(left, right)
                   /\ Install(s)
                   /\ op' = [NoOp EXCEPT !.kind = "get_sum", !.left = left,
                                         !.right = right, !.ret = s.ret]
                   /\ before' = now
    /\ pc' = "misused"
    /\ pair' = FALSE
    /\ base' = NoTable
    /\ UNCHANGED <<_left_bound, _right_bound, ref, step, initial>>

NextUnchecked == Next \/ MisuseAdd \/ MisuseGetSum

SpecUnchecked == Init /\ [][NextUnchecked]_vars

\* ------------------------------------------------------------- main()
\* The statements of main() in order; statement k is run when step = k - 1.
Stmt(kind, value, left, right) ==
    [kind |-> kind, value |-> value, left |-> left, right |-> right]

MainLength == 15 + 2 * LoopLast

MainStmt(k) ==
    IF k = 1 THEN Stmt("construct", 0, MainLeft, MainRight)
    ELSE IF k = 2 THEN Stmt("get_sum", 0, 2, 5)
    ELSE IF k = 3 THEN Stmt("add", 1, 1, 1)
    ELSE IF k = 4 THEN Stmt("get_sum", 0, 2, 5)
    ELSE IF k = 5 THEN Stmt("get_sum", 0, 1, 2)
    ELSE IF k = 6 THEN Stmt("add", -1, 1, 1)
    ELSE IF k = 7 THEN Stmt("get_sum", 0, 2, 5)
    ELSE IF k = 8 THEN Stmt("get_sum", 0, 1, 2)
    ELSE IF k <= 8 + LoopLast THEN Stmt("add", k - 8, k - 8, k - 8)
    ELSE IF k = 9 + LoopLast THEN Stmt("get_sum", 0, 2, 5)
    ELSE IF k = 10 + LoopLast THEN Stmt("get_sum", 0, 1, 10)
    ELSE IF k <= 10 + 2 * LoopLast
         THEN Stmt("add", -(k - 10 - LoopLast), k - 10 - LoopLast, k - 10 - LoopLast)
    ELSE IF k = 11 + 2 * LoopLast THEN Stmt("get_sum", 0, 2, 5)
    ELSE IF k = 12 + 2 * LoopLast THEN Stmt("get_sum", 0, 1, 10)
    ELSE IF k = 13 + 2 * LoopLast THEN Stmt("add", 5, 10, 23)
    ELSE IF k = 14 + 2 * LoopLast THEN Stmt("get_sum", 0, 2, 15)
    ELSE Stmt("get_sum", 0, 10, 26)

MainConstruct ==
    /\ step < MainLength
    /\ MainStmt(step + 1).kind = "construct"
    /\ ConstructRange(MainStmt(step + 1).left, MainStmt(step + 1).right)
    /\ step' = step + 1

MainAdd ==
    /\ step < MainLength
    /\ MainStmt(step + 1).kind = "add"
    /\ pc = "ready"
    /\ Add(MainStmt(step + 1).value, MainStmt(step + 1).left,
           MainStmt(step + 1).right, QueryTable(Self))
    /\ step' = step + 1
    /\ UNCHANGED pc

MainGetSum ==
    /\ step < MainLength
    /\ MainStmt(step + 1).kind = "get_sum"
    /\ pc = "ready"
    /\ GetSum(MainStmt(step + 1).left, MainStmt(step + 1).right,
              QueryTable(Self))
    /\ step' = step + 1
    /\ UNCHANGED pc

NextMain == MainConstruct \/ MainAdd \/ MainGetSum

SpecMain == Init /\ [][NextMain]_vars

\* ------------------------------------------------------ tree structure
\* The nodes of the tree under node idx covering [lb, rb]: <<index, lb, rb>>.
RECURSIVE NodesUnder(_, _, _)
NodesUnder(idx, lb, rb) ==
    IF lb >= rb THEN {<<idx, lb, rb>>}
    ELSE {<<idx, lb, rb>>}
           \cup NodesUnder(idx * 2, lb, Mid(lb, rb))
           \cup NodesUnder(idx * 2 + 1, Mid(lb, rb) + 1, rb)

Nodes == NodesUnder(1, _left_bound, _right_bound)

RECURSIVE CeilLog2(_)
CeilLog2(n) == IF n <= 1 THEN 0 ELSE 1 + CeilLog2((n + 1) \div 2)

Size == _right_bound - _left_bound + 1

\* A tree on which only calls that keep the precondition have been made.
WellUsed == pc \in {"ready", "built", "updated"}

\* ---------------------------------------------------------------- C1
\* C1: after construction (empty or from a sequence) and any sequence of
\* valid add and get_sum calls, a valid get_sum(l, r) returns the sum over
\* [l, r] of the reference array, in which add(x, lo, hi) adds x to every
\* entry of [lo, hi] and get_sum changes nothing: this holds of the call
\* that has just returned and of every valid call that could be made next.
C1_GetSumMatchesReference ==
    WellUsed =>
        /\ op.kind = "get_sum" => op.ret = SumOver(ref, op.left, op.right)
        /\ \A q \in Ranges : Query(Self, q[1], q[2]) = SumOver(ref, q[1], q[2])

\* A query of one point that had to push the tags of the root and of its
\* left child down and returned a non-zero sum.
C1_Witness ==
    /\ pc = "ready"
    /\ Size = MaxN
    /\ op.kind = "get_sum"
    /\ op.left = op.right
    /\ op.ret # 0
    /\ op.depth > 2
    /\ _tags[1] = 0
    /\ _tags[2] = 0
    /\ _tags[3] # 0
    /\ _tags[4] # 0

\* ---------------------------------------------------------------- C2
\* C2: a valid add(x, lo, hi) raises get_sum(p, p) by exactly x for every
\* point p of [lo, hi] and leaves get_sum(p, p) as it was for every other
\* point of the range.
C2_AddChangesExactlyItsRange ==
    (WellUsed /\ op.kind = "add") =>
        \A p \in Points :
            Query(Self, p, p) =
                before[<<p, p>>]
                  + (IF op.left <= p /\ p <= op.right THEN op.value ELSE 0)

\* A non-zero update of a proper sub-range of more than one point, on a tree
\* whose points were not all zero.
C2_Witness ==
    /\ WellUsed
    /\ op.kind = "add"
    /\ op.value # 0
    /\ op.left < op.right
    /\ op.right < _right_bound
    /\ before[<<_right_bound, _right_bound>>] # 0

\* ---------------------------------------------------------------- C3
\* C3: the tree freshly built from a non-empty sequence v has the range
\* [0, len(v)-1], get_sum(0, len(v)-1) is the sum of v, every leaf holds its
\* input value, every internal node holds the sum of its two children, and
\* all tags are zero.
C3_BuildCorrect ==
    (pc = "built" /\ op.kind = "build") =>
        /\ _left_bound = 0
        /\ _right_bound = Cardinality(DOMAIN ref) - 1
        /\ Query(Self, 0, _right_bound) = SumOver(ref, 0, _right_bound)
        /\ \A nd \in Nodes :
              IF nd[2] = nd[3]
              THEN _tree[nd[1]] = ref[nd[2]]
              ELSE _tree[nd[1]] = _tree[nd[1] * 2] + _tree[nd[1] * 2 + 1]
        /\ \A i \in DOMAIN _tags : _tags[i] = 0
        /\ ~ub

\* A tree built from MaxN values, the last of them not zero.
C3_Witness ==
    /\ pc = "built"
    /\ op.kind = "build"
    /\ Size = MaxN
    /\ ref[_right_bound] # 0
    /\ _tree[1] > 1

\* ---------------------------------------------------------------- C4
\* C4: add(x, i, i) followed by add(-x, i, i) leaves the result of every
\* valid query as it was before the two calls.
C4_InverseUpdatesCancel ==
    pair => QueryTable(Self) = base

\* The pair has run on a tree holding a pending tag below the root, with a
\* non-zero x and a non-zero query result.
C4_Witness ==
    /\ pair
    /\ op.value # 0
    /\ Size = MaxN
    /\ \E q \in Ranges : base[q] # 0
    /\ _tags[1] = 0
    /\ _tags[3] # 0

\* ---------------------------------------------------------------- C5
\* The valid updates <<value, left, right>> with a delta of the explored set.
AddOps == {u \in Vals \X Points \X Points : u[2] <= u[3]}

\* The object s after add(u[1], u[2], u[3]).
ThenAdd(s, u) == add(s, u[1], u[2], u[3], _left_bound, _right_bound)

\* C5: two valid updates applied in either order leave states in which every
\* valid query returns the same result.  The first update is the step just
\* taken from a reachable state; the second is any valid update; the other
\* order applies them to the state the step started in.
C5_UpdatesCommute ==
    [][(WellUsed' /\ op'.kind = "add") =>
          \A u \in AddOps :
              \A one \in {ThenAdd(Self', u)},
                 other \in {ThenAdd(ThenAdd(Self, u),
                                    <<op'.value, op'.left, op'.right>>)} :
                  \A q \in Ranges : Query(one, q[1], q[2]) = Query(other, q[1], q[2])]_vars

\* A non-zero update of a range of several points has run on a tree that
\* was not all zero, and a non-zero update of a range that overlaps it
\* without containing it or being contained in it can follow.
C5_Witness ==
    /\ WellUsed
    /\ op.kind = "add"
    /\ op.value # 0
    /\ op.left < op.right
    /\ \E q \in Ranges : before[q] # 0
    /\ \E u \in AddOps :
          /\ u[1] # 0
          /\ u[2] < op.left
          /\ op.left <= u[3]
          /\ u[3] < op.right

\* ---------------------------------------------------------------- C6
\* The three queries of a split t = <<a, b, c>>, a <= b < c, of the range
\* [a, c] into [a, b] and [b+1, c]: the whole, the left part, the right part.
Parts(t) == << <<t[1], t[3]>>, <<t[1], t[2]>>, <<t[2] + 1, t[3]>> >>

\* The orders in which three queries can be issued.
Orders == {o \in [1 .. 3 -> 1 .. 3] : \A i, j \in 1 .. 3 : o[i] = o[j] => i = j}

\* The results <<whole, left, right>> of the three queries of the split t
\* when the query of part o[1] has just returned first on the object s and
\* the queries of parts o[2] and o[3] follow it in that order.
AfterFirst(s, first, t, o) ==
    LET r2 == get_sum(s, Parts(t)[o[2]][1], Parts(t)[o[2]][2],
                      _left_bound, _right_bound)
        r3 == get_sum(r2, Parts(t)[o[3]][1], Parts(t)[o[3]][2],
                      _left_bound, _right_bound)
    IN  [k \in 1 .. 3 |->
            IF o[1] = k THEN first ELSE IF o[2] = k THEN r2.ret ELSE r3.ret]

\* The splits of which [l, r] is the whole, the left part or the right part.
SplitsWith(l, r) ==
    [k \in 1 .. 3 |->
        IF k = 1 THEN {<<l, b, r>> : b \in l .. r - 1}
        ELSE IF k = 2 THEN {<<l, r, c>> : c \in r + 1 .. _right_bound}
        ELSE {<<a, l - 1, r>> : a \in _left_bound .. l - 1}]

\* C6: for all a <= b < c in range, three consecutive queries satisfy
\* get_sum(a,c) = get_sum(a,b) + get_sum(b+1,c) in whatever order they are
\* issued.  The first of the three is the query that has just returned, in
\* any of the three roles; the other two follow it, in either order, on the
\* state it left.
C6_Additive ==
    (WellUsed /\ op.kind = "get_sum") =>
        \A o \in Orders :
            \A t \in SplitsWith(op.left, op.right)[o[1]] :
                \A v \in {AfterFirst(Self, op.ret, t, o)} :
                    v[1] = v[2] + v[3]

\* A query of a left part [a, b] has pushed the root's tag down, stopped at
\* the left child, which keeps the tag, and returned a non-zero sum.
C6_Witness ==
    /\ WellUsed
    /\ op.kind = "get_sum"
    /\ op.left < op.right
    /\ op.right < _right_bound
    /\ op.ret # 0
    /\ _tags[1] = 0
    /\ _tags[2] # 0

\* ---------------------------------------------------------------- C7
\* C7: every valid add and get_sum, and every bulk build of a non-empty
\* input, completes, inside the arrays, with at most ceil(log2(R-L+1)) + 1
\* nested calls on any descent (a call is one step here, taken only when its
\* recursion has been run to the end; depth is the deepest nesting reached).
C7_DepthBounded ==
    (WellUsed /\ op.kind \in {"add", "get_sum", "build"}) =>
        /\ ~ub
        /\ op.depth >= 1
        /\ op.depth <= CeilLog2(Size) + 1

\* A call on the largest tree that went all the way down to a leaf.
C7_Witness ==
    /\ WellUsed
    /\ op.kind \in {"add", "get_sum"}
    /\ Size = MaxN
    /\ op.depth = CeilLog2(Size) + 1

\* ---------------------------------------------------------------- C8
\* C8: the run of main() prints exactly the values of the worked example:
\* 0; after add(1,1,1): 0 and 1; after add(-1,1,1): 0 and 0; after
\* add(i,i,i) for i = 1..50: 14 and 55; after add(-i,i,i) for i = 1..50: 0
\* and 0; after add(5,10,23): 30 and 70.
C8_WorkedExample ==
    /\ step = 2 => op.ret = 0
    /\ step = 4 => op.ret = 0
    /\ step = 5 => op.ret = 1
    /\ step = 7 => op.ret = 0
    /\ step = 8 => op.ret = 0
    /\ step = 9 + LoopLast => op.ret = 14
    /\ step = 10 + LoopLast => op.ret = 55
    /\ step = 11 + 2 * LoopLast => op.ret = 0
    /\ step = 12 + 2 * LoopLast => op.ret = 0
    /\ step = 14 + 2 * LoopLast => op.ret = 30
    /\ step = 15 + 2 * LoopLast => op.ret = 70

\* main() has run to its last statement, get_sum(10, 26), on the tree over
\* [1, 50].
C8_Witness ==
    /\ step = MainLength
    /\ _left_bound = MainLeft
    /\ _right_bound = MainRight
    /\ op.kind = "get_sum"
    /\ op.left = 10
    /\ op.right = 26
    /\ op.ret = 70

\* ---------------------------------------------------------------- C9
\* C9: a call of add or get_sum with left > right or with a bound outside
\* [left_bound, right_bound] is rejected before any mutation: no entry of
\* the aggregate or tag array changes and every valid query returns
\* afterwards what it returned before.  A call whose recursion leaves the
\* arrays has undefined behaviour and may do anything, nothing included, so
\* the statement is asked only of the calls that stay inside the arrays.
C9_InvalidCallChangesNothing ==
    [][(pc' = "misused" /\ ~ub') =>
          /\ _tree' = _tree
          /\ _tags' = _tags
          /\ QueryTable(Self') = QueryTable(Self)]_vars

\* --------------------------------------------------------------- C10
\* C10 as stated: between operations the aggregate of every node is the
\* true sum of the point values of its sub-range.
C10_EveryAggregateExact ==
    WellUsed =>
        \A nd \in Nodes : _tree[nd[1]] = SumOver(ref, nd[2], nd[3])

\* C10 as amended: between operations the aggregate of every node none of
\* whose proper ancestors holds a non-zero tag (the root among them) is the
\* true sum of the point values of its sub-range.
C10_AggregateExactBelowClearAncestors ==
    WellUsed =>
        \A nd \in Nodes :
            (\A a \in Ancestors(nd[1]) : _tags[a] = 0)
                => _tree[nd[1]] = SumOver(ref, nd[2], nd[3])

\* After a partial update: the root has been recomputed and a leaf below
\* clear ancestors holds a non-zero value.
C10_Witness ==
    /\ pc = "ready"
    /\ op.kind = "add"
    /\ op.left = op.right
    /\ Size = MaxN
    /\ _tags[1] = 0
    /\ _tags[2] = 0
    /\ _tree[4] # 0
    /\ _tree[1] > 1

\* --------------------------------------------------------------- C11
\* C11: between operations, every internal node idx covering [lb, rb]
\* satisfies _tree[idx] = _tree[2*idx] + _tree[2*idx+1] + _tags[idx] * (rb -
\* lb + 1): the tag of a node is the per-point delta that its own aggregate
\* holds and that its children's aggregates do not hold yet.
C11_TagIsPendingDelta ==
    WellUsed =>
        \A nd \in Nodes :
            nd[2] < nd[3] =>
                _tree[nd[1]] = _tree[nd[1] * 2] + _tree[nd[1] * 2 + 1]
                                 + _tags[nd[1]] * (nd[3] - nd[2] + 1)

\* An internal node holds a pending tag above two children whose aggregates
\* are not zero.
C11_Witness ==
    /\ WellUsed
    /\ \E nd \in Nodes :
          /\ nd[2] < nd[3]
          /\ _tags[nd[1]] # 0
          /\ _tree[nd[1] * 2] # 0
          /\ _tree[nd[1] * 2 + 1] # 0

\* --------------------------------------------------------------- C12
\* The sum of the tags of the proper ancestors of node idx.
RECURSIVE TagsAbove(_)
TagsAbove(idx) ==
    IF idx <= 1 THEN 0 ELSE _tags[idx \div 2] + TagsAbove(idx \div 2)

\* C12: between operations, for every node idx covering [lb, rb] the true
\* sum of the point values over [lb, rb] is _tree[idx] + (rb - lb + 1) * (the
\* sum of the tags of the proper ancestors of idx); so the root aggregate is
\* the total over the whole range, and a node whose proper ancestors all
\* have a zero tag is not stale.
C12_StaleByAncestorTags ==
    WellUsed =>
        /\ \A nd \in Nodes :
              SumOver(ref, nd[2], nd[3]) =
                  _tree[nd[1]] + (nd[3] - nd[2] + 1) * TagsAbove(nd[1])
        /\ _tree[1] = SumOver(ref, _left_bound, _right_bound)
        /\ \A nd \in Nodes :
              (\A a \in Ancestors(nd[1]) : _tags[a] = 0)
                  => _tree[nd[1]] = SumOver(ref, nd[2], nd[3])

\* A leaf two levels below the root is stale: its aggregate differs from
\* its point value by the tag pending at its parent.
C12_Witness ==
    /\ WellUsed
    /\ Size = MaxN
    /\ _tags[2] # 0
    /\ _tree[4] # ref[_left_bound]
    /\ TagsAbove(4) # 0

\* --------------------------------------------------------------- C13
\* C13 as stated: in every reachable state the tag of every leaf (a node
\* whose sub-range has one point) is zero.
C13_LeafTagsZero ==
    WellUsed =>
        \A nd \in Nodes : nd[2] = nd[3] => _tags[nd[1]] = 0

\* The indices of the nodes of the tree.
NodeIndices == {nd[1] : nd \in Nodes}

\* C13 as amended: the tag of a leaf need not be zero.  It is the per-point
\* delta that updates covering the leaf and push-downs from its parent have
\* added to the leaf's aggregate since construction, so the aggregate of
\* the leaf is the point's initial value plus the tag; and the tag is never
\* pushed further down: every entry of both arrays below the leaves, and
\* every other entry that is not a node, still holds the zero it was
\* allocated with.
C13_LeafTagIsAppliedDelta ==
    WellUsed =>
        /\ \A nd \in Nodes :
              nd[2] = nd[3] => _tree[nd[1]] = initial[nd[2]] + _tags[nd[1]]
        /\ \A i \in DOMAIN _tags :
              i \notin NodeIndices => (_tags[i] = 0 /\ _tree[i] = 0)

\* A leaf two levels below the root holds a non-zero tag that was pushed
\* down from its parent, above entries of the arrays that are allocated.
C13_Witness ==
    /\ WellUsed
    /\ Size = MaxN
    /\ op.kind = "get_sum"
    /\ _tags[2] = 0
    /\ _tags[4] # 0
    /\ _tags[5] # 0
    /\ 9 \in DOMAIN _tags

\* --------------------------------------------------------------- C14
\* The index of every node of a tree of 1 .. MaxShape points lies in
\* 1 .. 4*n - 1 (the shape of the tree depends on its size only).
ShapesFit ==
    \A n \in 1 .. MaxShape :
        \A nd \in NodesUnder(1, MainLeft, MainLeft + n - 1) :
            nd[1] \in 1 .. 4 * n - 1

\* C14: every array index that bulk build or a valid add or get_sum reads
\* or writes in _tree or _tags, the child indices touched by push-down and
\* by the recompute included, lies in 1 .. 4*(R-L+1) - 1, inside the
\* allocated arrays: the call touches indices of nodes of the tree only,
\* and the node indices of every tree fit.
C14_AccessesInsideArrays ==
    (WellUsed /\ op.kind \in {"build", "add", "get_sum"}) =>
        /\ ~ub
        /\ op.touched # {}
        /\ op.touched \subseteq 1 .. (4 * Size - 1)
        /\ op.touched \subseteq DOMAIN _tree
        /\ op.touched \subseteq DOMAIN _tags
        /\ op.touched \subseteq NodeIndices
        /\ ShapesFit

\* A call on the largest tree has touched every node of it, the children
\* of the deepest internal node among them.
C14_Witness ==
    /\ WellUsed
    /\ op.kind \in {"add", "get_sum"}
    /\ Size = MaxN
    /\ op.depth = CeilLog2(Size) + 1
    /\ op.touched = NodeIndices
    /\ Cardinality(op.touched) = 2 * MaxN - 1

\* --------------------------------------------------------------- C15
\* The arrivals of the traversal of the call o (a record like op) when it
\* runs on the object s.
VisitsOf(s, o) ==
    IF o.kind = "add"
    THEN add(s, o.value, o.left, o.right, _left_bound, _right_bound).visits
    ELSE get_sum(s, o.left, o.right, _left_bound, _right_bound).visits

\* The number of points of the child c of the visited node v.
ChildSize(v, c) ==
    IF c = v.idx * 2 THEN Mid(v.lb, v.rb) - v.lb + 1 ELSE v.rb - Mid(v.lb, v.rb)

\* C15: during a valid add or get_sum, when the traversal descends from a
\* node into a child the node's tag is zero: a non-zero tag has been added
\* to both children's tags, tag * child size to both children's aggregates,
\* and cleared.  So the traversal arrives at every node below ancestors
\* whose tags are all zero, and after the call every visited node that is
\* not fully inside [left, right] has tag zero.  Checked of every call step:
\* the arrivals are those of the step's call on the state it started in.
C15_TagsClearedOnDescent ==
    [][(WellUsed' /\ op'.kind \in {"add", "get_sum"}) =>
          \A vs \in {VisitsOf(Self, op')} :
              /\ \E v \in vs : v.idx = 1
              /\ \A v \in vs :
                    /\ v.clear
                    /\ v.covered = Covers(op'.left, op'.right, v.lb, v.rb)
                    /\ ~v.covered => _tags'[v.idx] = 0
                    /\ ~v.covered =>
                          \A c \in {v.idx * 2, v.idx * 2 + 1} :
                              IF \E w \in vs : w.idx = c
                              THEN \A w \in vs :
                                     w.idx = c =>
                                        /\ w.tag = _tags[c] + v.tag
                                        /\ w.tree = _tree[c]
                                                      + v.tag * (w.rb - w.lb + 1)
                              ELSE /\ _tags'[c] = _tags[c] + v.tag
                                   /\ _tree'[c] = _tree[c] + v.tag * ChildSize(v, c)]_vars

\* An update of one point went down two levels through two pending tags:
\* both were pushed down, the one of the root onto the right child, which
\* the traversal did not enter.
C15_Witness ==
    /\ WellUsed
    /\ op.kind = "add"
    /\ op.left = op.right
    /\ Size = MaxN
    /\ op.depth = 3
    /\ before[<<_left_bound, _right_bound>>] # 0
    /\ _tags[1] = 0
    /\ _tags[2] = 0
    /\ _tags[3] # 0
    /\ _tags[5] # 0

\* --------------------------------------------------------------- C16
\* The array indices below node idx.
Descendants(idx) == {d \in DOMAIN _tree : idx \in Ancestors(d)}

\* C16: in a valid add(value, left, right), at a node idx whose sub-range
\* [lb, rb] lies within [left, right] the call changes the node's own
\* entries only: _tree[idx] grows by value * (rb - lb + 1) and _tags[idx]
\* by value, over what the traversal found on arrival, the traversal goes
\* no further, and the aggregate and the tag of every proper descendant of
\* the node are after the call what they were before it.  Checked of every
\* add step, for every covered node its traversal arrives at; the covered
\* branch is also run by itself, at that node, on the state the step
\* started in: it changes the two entries of the node and nothing else.
C16_CoveredNodeOnly ==
    [][(WellUsed' /\ op'.kind = "add") =>
          \A v \in VisitsOf(Self, op') :
              v.covered =>
                  /\ _tree'[v.idx] = v.tree + op'.value * (v.rb - v.lb + 1)
                  /\ _tags'[v.idx] = v.tag + op'.value
                  /\ \A d \in Descendants(v.idx) :
                        /\ _tree'[d] = _tree[d]
                        /\ _tags'[d] = _tags[d]
                        /\ d \notin op'.touched
                  /\ \A r \in {_add(Self, op'.value, v.idx, op'.left, op'.right,
                                    v.lb, v.rb, 1)} :
                         /\ r.tree = [_tree EXCEPT ![v.idx] =
                                         @ + op'.value * (v.rb - v.lb + 1)]
                         /\ r.tags = [_tags EXCEPT ![v.idx] = @ + op'.value]
                         /\ r.touched = {v.idx}
                         /\ Cardinality(r.visits) = 1]_vars

\* A non-zero update of the two points of the root's left child has stopped
\* at that child: the child holds the tag, above two leaves whose aggregates
\* are not zero.
C16_Witness ==
    /\ WellUsed
    /\ op.kind = "add"
    /\ op.value # 0
    /\ Size = MaxN
    /\ op.left = _left_bound
    /\ op.right = Mid(_left_bound, _right_bound)
    /\ op.left < op.right
    /\ op.depth = 2
    /\ _tags[2] # 0
    /\ _tree[4] # 0
    /\ _tree[5] # 0

\* --------------------------------------------------------------- C17
\* C17: a valid get_sum(l, r) may rewrite aggregates and tags by pushing
\* tags down, but it changes no point value: every valid query returns
\* after it what it would have returned before it, so the result of a query
\* does not depend on the queries issued before it; and get_sum(L, R) on
\* the whole range changes no entry of either array.  Stated of the query
\* that has just returned, which may follow any number of others: before
\* is the table of all valid query results of the state it started in.
C17_GetSumReadOnly ==
    (WellUsed /\ op.kind = "get_sum") =>
        /\ QueryTable(Self) = before
        /\ \A p \in Points : Query(Self, p, p) = ref[p]
        /\ (op.left = _left_bound /\ op.right = _right_bound) =>
              /\ ~op.changed
              /\ op.touched = {1}

\* A query of the last point has pushed the root's tag down onto both
\* children, rewriting the left one, which it did not enter, and returned
\* a non-zero sum.
C17_Witness ==
    /\ WellUsed
    /\ op.kind = "get_sum"
    /\ Size = MaxN
    /\ op.left = _right_bound
    /\ op.right = _right_bound
    /\ op.ret # 0
    /\ 2 \in op.touched
    /\ op.changed
    /\ _tags[1] = 0
    /\ _tags[2] # 0
    /\ _tags[3] # 0

====
